---- MODULE Spec2Model ----
(***************************************************************************)
(* Model of streamlit_app.py: the sea-level-rise dashboard script.         *)
(*                                                                         *)
(* Strings are sequences of one-character strings, so that lower() and     *)
(* contains() are computed and not assumed.  The world is a one-           *)
(* dimensional strip of lattice cells: a geographic shape is a set of cell *)
(* indices, a line geometry (coastline) is a set of lattice points.  The   *)
(* metric projection stretches the cells (as EPSG:3857 stretches           *)
(* latitudes), and a metric shape is a set of metric intervals <<lo, hi>>  *)
(* in metres.  A buffer floods the lattice cells it covers entirely.       *)
(* Sea-level rise is kept in decimetres, areas are exact integers.         *)
(* One run of the script is modelled, from a cold cache of load_world.     *)
(***************************************************************************)
EXTENDS Integers, Sequences, FiniteSets

VARIABLES
    pc,                   \* position of the script run
    provider,             \* what the two boundary sources would deliver
    tried,                \* sources consulted by load_world, in order
    world,
    years, region, default_slr, METER_PER_MSLR,
    coastlines, selected_region_geom, inundations,
    summary_df, region_area_km2, inundation_layers, heat_rows,
    output,               \* what the run has shown so far, in order
    r_pc, r_gdf, r_key, r_geom,      \* get_region_geom applied on its own
    s_pc, s_args, s_results          \* simulate_inundation_for_years on its own

pipeVars == <<pc, provider, tried, world, years, region, default_slr,
              METER_PER_MSLR, coastlines, selected_region_geom, inundations,
              summary_df, region_area_km2, inundation_layers, heat_rows, output>>
resVars == <<r_pc, r_gdf, r_key, r_geom>>
simVars == <<s_pc, s_args, s_results>>
vars == <<pipeVars, resVars, simVars>>

\* ------------------------------------------------------------------ bounds
MaxRecords == 3
MaxYears == 2
NCells == 6

\* A missing string cell (None / NaN in a pandas column): a one-element
\* sequence whose element is no character, so it equals no string.
Null == <<"NaN">>

\* ----------------------------------------------------------------- strings
UpperChars == <<"A","B","C","D","E","F","G","H","I","J","K","L","M",
                "N","O","P","Q","R","S","T","U","V","W","X","Y","Z">>
LowerChars == <<"a","b","c","d","e","f","g","h","i","j","k","l","m",
                "n","o","p","q","r","s","t","u","v","w","x","y","z">>

LowerChar(c) ==
    IF \E i \in 1..26 : UpperChars[i] = c
    THEN LowerChars[CHOOSE i \in 1..26 : UpperChars[i] = c]
    ELSE c

\* str.lower()
Lower(s) == [i \in 1..Len(s) |-> LowerChar(s[i])]

\* pandas .str.lower() on a cell: a missing value stays missing
StrLower(v) == IF v = Null THEN Null ELSE Lower(v)

\* 'sub' in s
Contains(s, sub) ==
    \E i \in 0..(Len(s) - Len(sub)) : SubSeq(s, i + 1, i + Len(sub)) = sub

\* pandas .str.contains(sub, na=False) on an already lowered cell
StrContains(v, sub) == IF v = Null THEN FALSE ELSE Contains(v, sub)

s_name == <<"n","a","m","e">>
s_continent == <<"c","o","n","t","i","n","e","n","t">>
s_geometry == <<"g","e","o","m","e","t","r","y">>
s_korea == <<"k","o","r","e","a">>
s_south == <<"s","o","u","t","h">>
s_World == <<"W","o","r","l","d">>
s_Asia == <<"A","s","i","a">>
s_Africa == <<"A","f","r","i","c","a">>
s_NorthAmerica == <<"N","o","r","t","h"," ","A","m","e","r","i","c","a">>
s_SouthAmerica == <<"S","o","u","t","h"," ","A","m","e","r","i","c","a">>
s_SouthKorea == <<"S","o","u","t","h"," ","K","o","r","e","a">>

\* the alternative column names load_world accepts
NameAlts == << <<"a","d","m","i","n">>,
               <<"s","o","v","e","r","e","i","g","n","t">>,
               <<"n","a","m","e","_","l","o","n","g">>,
               <<"n","a","m","e","_","e","n">>,
               <<"n","a","m","e","_","a","s","c","i","i">> >>
ContinentAlts == << <<"r","e","g","i","o","n","_","u","n">>,
                    <<"r","e","g","i","o","n","_","w","b">>,
                    <<"c","o","n","t","i","n","e","n","t","_","e","n">> >>

\* --------------------------------------------------------------- sequences
Range(s) == {s[i] : i \in 1..Len(s)}

IndexOf(s, x) == CHOOSE i \in 1..Len(s) : s[i] = x /\ \A j \in 1..(i - 1) : s[j] # x

RECURSIVE SumOver(_, _)
SumOver(S, f) ==
    IF S = {} THEN 0
    ELSE LET x == CHOOSE y \in S : TRUE IN f[x] + SumOver(S \ {x}, f)

\* the elements of a set of integers in ascending order
RECURSIVE Ascending(_)
Ascending(S) ==
    IF S = {} THEN <<>>
    ELSE LET m == CHOOSE x \in S : \A y \in S : x <= y
         IN <<m>> \o Ascending(S \ {m})

\* ------------------------------------------------------------- data frames
\* A frame is [source, columns, rows]: rows[i][j] is the cell of row i in
\* column columns[j].
HasColumn(gdf, c) == c \in Range(gdf.columns)

Cell(gdf, i, c) == gdf.rows[i][IndexOf(gdf.columns, c)]

RowIds(gdf) == 1..Len(gdf.rows)

\* GeoDataFrame.unary_union of the rows in ids (an empty frame gives an empty
\* shape, never None)
UnaryUnion(gdf, ids) == UNION {Cell(gdf, i, s_geometry) : i \in ids}

RenameColumn(gdf, old, new) ==
    [gdf EXCEPT !.columns = [j \in 1..Len(gdf.columns) |->
                                IF gdf.columns[j] = old THEN new ELSE gdf.columns[j]]]

\* the for/if/break loops of load_world: rename the first alternative present
RECURSIVE RenameFirstAlt(_, _, _, _)
RenameFirstAlt(gdf, alts, k, new) ==
    IF k > Len(alts) THEN gdf
    ELSE IF HasColumn(gdf, alts[k]) THEN RenameColumn(gdf, alts[k], new)
    ELSE RenameFirstAlt(gdf, alts, k + 1, new)

NormalizeColumns(raw) ==
    LET lowered == [raw EXCEPT !.columns = [j \in 1..Len(raw.columns) |-> Lower(raw.columns[j])]]
        named == IF ~HasColumn(lowered, s_name)
                 THEN RenameFirstAlt(lowered, NameAlts, 1, s_name)
                 ELSE lowered
    IN IF ~HasColumn(named, s_continent)
       THEN RenameFirstAlt(named, ContinentAlts, 1, s_continent)
       ELSE named

\* ------------------------------------------------------- region resolution
KoreaRows(world_gdf) ==
    {i \in RowIds(world_gdf) : StrContains(StrLower(Cell(world_gdf, i, s_name)), s_korea)}

\* variant: the 'south' filter taken over every row, not over the korea rows
SouthRows_AnyRow(world_gdf) ==
    {i \in RowIds(world_gdf) : StrContains(StrLower(Cell(world_gdf, i, s_name)), s_south)}

SouthRows(world_gdf) ==
    {i \in KoreaRows(world_gdf) : StrContains(StrLower(Cell(world_gdf, i, s_name)), s_south)}

ContinentRows(world_gdf, region_key) ==
    {i \in RowIds(world_gdf) :
        /\ Cell(world_gdf, i, s_continent) # Null
        /\ StrLower(Cell(world_gdf, i, s_continent)) = Lower(region_key)}

\* variant: the continent rows are returned without the test for emptiness
ContinentOrWorld_NoFallback(world_gdf, region_key) ==
    IF HasColumn(world_gdf, s_continent)
    THEN UnaryUnion(world_gdf, ContinentRows(world_gdf, region_key))
    ELSE UnaryUnion(world_gdf, RowIds(world_gdf))

ContinentOrWorld(world_gdf, region_key) ==
    IF HasColumn(world_gdf, s_continent) /\ ContinentRows(world_gdf, region_key) # {}
    THEN UnaryUnion(world_gdf, ContinentRows(world_gdf, region_key))
    ELSE UnaryUnion(world_gdf, RowIds(world_gdf))

get_region_geom(world_gdf, region_key) ==
    IF region_key = s_World THEN UnaryUnion(world_gdf, RowIds(world_gdf))
    ELSE IF /\ region_key = s_SouthKorea
            /\ HasColumn(world_gdf, s_name)
            /\ KoreaRows(world_gdf) # {}
    THEN IF SouthRows(world_gdf) # {}
         THEN UnaryUnion(world_gdf, SouthRows(world_gdf))
         ELSE UnaryUnion(world_gdf, KoreaRows(world_gdf))
    ELSE ContinentOrWorld(world_gdf, region_key)

\* ---------------------------------------------------------------- geometry
Cells == 0..(NCells - 1)
Points == 0..NCells

\* EPSG:4326 -> EPSG:3857 on a lattice point: metres, stretched more the
\* further the point lies from the origin; strictly increasing.
project_to_metric(p) == 100 * p * (p + 1)

\* EPSG:3857 -> EPSG:4326 on a metric coordinate of the lattice
project_to_wgs(m) == CHOOSE p \in Points : project_to_metric(p) = m

\* shapely.ops.transform(project_to_metric, .) on a shape and on a line
ShapeToMetric(shape) == {<<project_to_metric(i), project_to_metric(i + 1)>> : i \in shape}
LineToMetric(line) == {project_to_metric(p) : p \in line}

\* shapely.ops.transform(project_to_wgs, .) on a metric shape
ShapeToWgs(mshape) == {project_to_wgs(iv[1]) : iv \in mshape}

to_metric(geom_obj) == ShapeToMetric(geom_obj)
to_wgs(geom_obj) == ShapeToWgs(geom_obj)

\* geometry.boundary of a shape: the lattice points with the shape on one side
Boundary(shape) == {p \in Points : ((p - 1) \in shape) # (p \in shape)}

SetMax(S) == CHOOSE x \in S : \A y \in S : y <= x
SetMin(S) == CHOOSE x \in S : \A y \in S : x <= y

\* Is the metric interval [a, b] inside the union of the discs of radius d
\* around the points of the metric line?
Covered(line_metric, d, a, b) ==
    LET L == {m \in line_metric : m <= a}
        R == {m \in line_metric : m >= b}
    IN \/ L # {} /\ SetMax(L) + d >= b
       \/ R # {} /\ SetMin(R) - d <= a
       \/ L # {} /\ R # {} /\ SetMax(L) + d >= SetMin(R) - d

\* line.buffer(d): a polygon; of no extent when d <= 0
Buffer(line_metric, d) ==
    IF d <= 0 THEN {}
    ELSE {iv \in ShapeToMetric(Cells) : Covered(line_metric, d, iv[1], iv[2])}

\* variant: the buffer is not clipped to the region
Intersection_IgnoresRegion(a, b) == a

Intersection(a, b) == a \cap b

\* .area of a metric shape, in square metres (the strip is 5000 m wide)
MetricArea(mshape) == SumOver(mshape, [iv \in mshape |-> (iv[2] - iv[1]) * 5000])

\* .area / 1e6
AreaKm2(mshape) == MetricArea(mshape) \div 1000000

build_coastline_union(world_gdf) ==
    UNION {Boundary(Cell(world_gdf, i, s_geometry)) : i \in RowIds(world_gdf)}

\* -------------------------------------------------------------- simulation
\* A dict is the sequence of its <<key, value>> items in insertion order.
DictKeys(d) == {d[i][1] : i \in 1..Len(d)}

DictGet(d, k) == d[CHOOSE i \in 1..Len(d) : d[i][1] = k][2]

\* d[k] = v
DictSet(d, k, v) ==
    IF k \in DictKeys(d)
    THEN [i \in 1..Len(d) |-> IF d[i][1] = k THEN <<k, v>> ELSE d[i]]
    ELSE Append(d, <<k, v>>)

\* variant: a missing year defaults to a rise of one metre
SlrGet_DefaultOne(slr_map, y) == IF y \in DOMAIN slr_map THEN slr_map[y] ELSE 10

\* slr_map.get(y, 0.0), in decimetres
SlrGet(slr_map, y) == IF y \in DOMAIN slr_map THEN slr_map[y] ELSE 0

\* variant: the magnitude of the rise is buffered
BufferDist_Magnitude(slr_dm, meter_per_m) ==
    ((IF slr_dm < 0 THEN -slr_dm ELSE slr_dm) * meter_per_m) \div 10

\* slr_m * meter_per_m, in metres (the rise is held in decimetres)
BufferDist(slr_dm, meter_per_m) == (slr_dm * meter_per_m) \div 10

\* one turn of the loop body of simulate_inundation_for_years
InundationFor(y, slr_map, coast_metric, region_metric, meter_per_m) ==
    LET slr_m == SlrGet(slr_map, y)
        buffer_dist == BufferDist(slr_m, meter_per_m)
        inundation_metric == Buffer(coast_metric, buffer_dist)
        inundation_region == Intersection(inundation_metric, region_metric)
    IN ShapeToWgs(inundation_region)

RECURSIVE SimulateLoop(_, _, _, _, _, _, _)
SimulateLoop(results, years_list, k, slr_map, coast_metric, region_metric, meter_per_m) ==
    IF k > Len(years_list) THEN results
    ELSE SimulateLoop(
            DictSet(results, years_list[k],
                    InundationFor(years_list[k], slr_map, coast_metric, region_metric, meter_per_m)),
            years_list, k + 1, slr_map, coast_metric, region_metric, meter_per_m)

simulate_inundation_for_years(years_list, slr_map, coastlines_geom, region_mask, meter_per_m) ==
    SimulateLoop(<<>>, years_list, 1, slr_map,
                 LineToMetric(coastlines_geom), ShapeToMetric(region_mask), meter_per_m)

\* area_km2 of one inundation shape, as the summary and heat-map loops take it
InundationKm2(poly) == IF poly # {} THEN AreaKm2(ShapeToMetric(poly)) ELSE 0

\* ------------------------------------------------------- boundary datasets
\* The country records a boundary file may hold: name, continent and shape.
RecordPool == <<
    [name |-> s_SouthKorea, continent |-> s_Asia, shape |-> {1}],
    [name |-> <<"B","r","a","z","i","l">>, continent |-> s_SouthAmerica, shape |-> {3, 4}],
    [name |-> <<"N","o","r","t","h"," ","K","o","r","e","a">>, continent |-> s_Asia, shape |-> {2}],
    [name |-> <<"J","a","p","a","n">>, continent |-> <<"a","s","i","a">>, shape |-> {5}],
    [name |-> <<"S","o","u","t","h"," ","A","f","r","i","c","a">>, continent |-> s_Africa, shape |-> {0}],
    [name |-> Null, continent |-> Null, shape |-> {}] >>

\* column layouts of boundary files
LowresColumns == <<s_continent, s_name, s_geometry>>
Ne110mColumns == << <<"A","D","M","I","N">>, <<"N","A","M","E">>,
                    <<"C","O","N","T","I","N","E","N","T">>, s_geometry >>
Schemas == { LowresColumns, Ne110mColumns,
             << <<"A","D","M","I","N">>, <<"R","E","G","I","O","N","_","U","N">>, s_geometry >>,
             << <<"N","A","M","E","_","E","N">>, <<"S","O","V","E","R","E","I","G","N","T">>, s_geometry >>,
             <<s_name, s_geometry>>,
             <<s_continent, s_geometry>>,
             <<s_geometry>> }

IsNameColumn(c) == Lower(c) = s_name \/ Lower(c) \in Range(NameAlts)
IsContinentColumn(c) == Lower(c) = s_continent \/ Lower(c) \in Range(ContinentAlts)

MakeRow(columns, rec) ==
    [j \in 1..Len(columns) |->
        IF IsNameColumn(columns[j]) THEN rec.name
        ELSE IF IsContinentColumn(columns[j]) THEN rec.continent
        ELSE rec.shape]

\* gpd.read_file: the frame a file with these columns and records gives
ReadFile(source, columns, ids) ==
    [source |-> source, columns |-> columns,
     rows |-> [i \in 1..Len(ids) |-> MakeRow(columns, RecordPool[ids[i]])]]

NoFrame == [source |-> "none", columns |-> <<>>, rows |-> <<>>]

\* the record selections of a boundary file: the first n records of the pool
\* and every selection of at most MaxRecords records
PoolPrefixes == {Ascending(1..n) : n \in 0..MaxRecords}
\* the boundary files of the script run: an empty one and one of MaxRecords records
RunSelections == {<<>>, Ascending(1..MaxRecords)}
PoolSelections == {Ascending(S) : S \in {T \in SUBSET (1..Len(RecordPool)) : Cardinality(T) <= MaxRecords}}

\* ------------------------------------------------------------- user inputs
Milestones == <<2030, 2040, 2050, 2060, 2070>>
RegionOptions == <<s_World, s_Asia, s_NorthAmerica, s_SouthAmerica, s_Africa, s_SouthKorea>>
regions_to_compare == <<s_Asia, s_NorthAmerica, s_SouthAmerica, s_Africa, s_SouthKorea>>

\* default_slr in decimetres
DefaultSlr == [y \in Range(Milestones) |->
                  CASE y = 2030 -> 3 [] y = 2040 -> 6 [] y = 2050 -> 10
                    [] y = 2060 -> 16 [] y = 2070 -> 22]

\* tables the number inputs may leave in default_slr
SlrTables == { DefaultSlr,
               [y \in Range(Milestones) |->
                  CASE y = 2030 -> 22 [] y = 2040 -> 10 [] y = 2050 -> 0
                    [] y = 2060 -> -3 [] y = 2070 -> 3] }

\* positions of the slider: its default and its two ends
SliderChoices == {50, 400, 2000}

\* the positions the script run is taken through
RunSliderChoices == {400, 2000}

IsInjective(s) == \A i, j \in 1..Len(s) : i # j => s[i] # s[j]

\* a multiselect returns the chosen options, each once, in the order chosen
YearSelections ==
    {s \in UNION {[1..n -> Range(Milestones)] : n \in 0..MaxYears} : IsInjective(s)}

\* ------------------------------------------------------------- aggregation
\* the positions of keys in ascending order of key, equal keys in their
\* original order
RECURSIVE OrderFrom(_, _)
OrderFrom(keys, S) ==
    IF S = {} THEN <<>>
    ELSE LET i == CHOOSE k \in S :
                    \A j \in S : keys[k] < keys[j] \/ (keys[k] = keys[j] /\ k <= j)
         IN <<i>> \o OrderFrom(keys, S \ {i})

Reorder(items, order) == [i \in 1..Len(order) |-> items[order[i]]]

\* variant: the rows are left in the order of the dict
sort_values_Unsorted(rows) == rows

\* DataFrame.sort_values('year')
sort_values(rows) ==
    Reorder(rows, OrderFrom([i \in 1..Len(rows) |-> rows[i].year], 1..Len(rows)))

\* sorted(dict.items())
SortedItems(d) ==
    Reorder(d, OrderFrom([i \in 1..Len(d) |-> d[i][1]], 1..Len(d)))

\* the loop building summary_rows
SummaryRows(results) ==
    [i \in 1..Len(results) |->
        [year |-> results[i][1], inundation_km2 |-> InundationKm2(results[i][2])]]

\* inundation_km2 / region_area_km2 * 100, kept exact as <<numerator, denominator>>
PctOfRegion(inundation_km2, area_km2) == <<inundation_km2 * 100, area_km2>>

\* variant: the region's area is taken without projecting it (in cells)
RegionAreaKm2_Unprojected(region_geom) == Cardinality(region_geom)

\* lines 179-184: region_metric.area / 1e6
RegionAreaKm2(region_geom) == AreaKm2(ShapeToMetric(region_geom))

\* None in the pct_of_region column
NoPct == <<>>

\* variant: the division is made without the test of the region's area
PctColumn_Unguarded(inundation_km2, area_km2) == PctOfRegion(inundation_km2, area_km2)

\* the pct_of_region column of one row
PctColumn(inundation_km2, area_km2) ==
    IF area_km2 # 0 /\ area_km2 > 0
    THEN PctOfRegion(inundation_km2, area_km2)
    ELSE NoPct

WithPct(rows, area_km2) ==
    [i \in 1..Len(rows) |->
        [year |-> rows[i].year, inundation_km2 |-> rows[i].inundation_km2,
         pct_of_region |-> PctColumn(rows[i].inundation_km2, area_km2)]]

\* --------------------------------------------------------------- rendering
\* the simple polygons of a shape: its maximal runs of adjacent cells
Runs(shape) ==
    {<<lo, hi>> \in shape \X shape :
        /\ lo <= hi
        /\ \A c \in lo..hi : c \in shape
        /\ (lo - 1) \notin shape
        /\ (hi + 1) \notin shape}

geom_to_pydeck_polygons(geom_obj) ==
    IF geom_obj = {} THEN <<>>
    ELSE LET los == Ascending({r[1] : r \in Runs(geom_obj)})
         IN [k \in 1..Len(los) |->
                [path |-> <<los[k],
                            1 + (CHOOSE hi \in geom_obj : <<los[k], hi>> \in Runs(geom_obj))>>]]

\* the layers the loop over sorted(inundations.items()) appends
RECURSIVE InundationLayers(_, _)
InundationLayers(items, i) ==
    IF i > Len(items) THEN <<>>
    ELSE LET polygons == geom_to_pydeck_polygons(items[i][2])
         IN (IF polygons = <<>> THEN <<>>
             ELSE << [year |-> items[i][1], data |-> polygons, color |-> (i - 1) % 5] >>)
            \o InundationLayers(items, i + 1)

\* the rows the heat-map loop appends for one region
HeatRowsFor(world_gdf, reg, years_list, slr_map, coastlines_geom, meter_per_m) ==
    LET sim == simulate_inundation_for_years(years_list, slr_map, coastlines_geom,
                                             get_region_geom(world_gdf, reg), meter_per_m)
    IN [i \in 1..Len(sim) |->
           [region |-> reg, year |-> sim[i][1], inundation_km2 |-> InundationKm2(sim[i][2])]]

RECURSIVE HeatRows(_, _, _, _, _, _)
HeatRows(world_gdf, k, years_list, slr_map, coastlines_geom, meter_per_m) ==
    IF k > Len(regions_to_compare) THEN <<>>
    ELSE HeatRowsFor(world_gdf, regions_to_compare[k], years_list, slr_map,
                     coastlines_geom, meter_per_m)
         \o HeatRows(world_gdf, k + 1, years_list, slr_map, coastlines_geom, meter_per_m)

\* ----------------------------------------------------------- the script run
InitRun ==
    /\ pc = "sidebar"
    /\ provider \in [primaryOk : BOOLEAN, secondaryOk : BOOLEAN, records : RunSelections]
    /\ tried = <<>>
    /\ world = NoFrame
    /\ years = <<>>
    /\ region = s_World
    /\ default_slr = DefaultSlr
    /\ METER_PER_MSLR = 0
    /\ coastlines = {}
    /\ selected_region_geom = {}
    /\ inundations = <<>>
    /\ summary_df = <<>>
    /\ region_area_km2 = 0
    /\ inundation_layers = <<>>
    /\ heat_rows = <<>>
    /\ output = <<>>

\* lines 33-46: the multiselect, the selectbox and the number inputs
ReadSidebar ==
    /\ pc = "sidebar"
    /\ \E ys \in YearSelections, reg \in Range(RegionOptions), slr \in SlrTables :
          /\ years' = ys
          /\ region' = reg
          /\ default_slr' = slr
          /\ output' = IF ys = <<>> THEN Append(output, "sidebar_error") ELSE output
    /\ pc' = "load_world"
    /\ UNCHANGED <<provider, tried, world, METER_PER_MSLR, coastlines,
                   selected_region_geom, inundations, summary_df, region_area_km2,
                   inundation_layers, heat_rows>>
    /\ UNCHANGED <<resVars, simVars>>

\* variant: a failure of both sources leaves an empty frame and the run goes on
LoadWorld_ContinuesOnFailure ==
    /\ pc = "load_world"
    /\ tried' = IF provider.primaryOk THEN <<"primary">> ELSE <<"primary", "secondary">>
    /\ world' = IF provider.primaryOk
                THEN NormalizeColumns(ReadFile("primary", LowresColumns, provider.records))
                ELSE IF provider.secondaryOk
                THEN NormalizeColumns(ReadFile("secondary", Ne110mColumns, provider.records))
                ELSE [source |-> "empty", columns |-> <<s_geometry>>, rows |-> <<>>]
    /\ pc' = "coastline"
    /\ UNCHANGED <<provider, years, region, default_slr, METER_PER_MSLR, coastlines,
                   selected_region_geom, inundations, summary_df, region_area_km2,
                   inundation_layers, heat_rows, output>>
    /\ UNCHANGED <<resVars, simVars>>

\* lines 49-75: world = load_world()
LoadWorld ==
    /\ pc = "load_world"
    /\ IF provider.primaryOk
       THEN /\ tried' = <<"primary">>
            /\ world' = NormalizeColumns(ReadFile("primary", LowresColumns, provider.records))
            /\ pc' = "coastline"
            /\ output' = output
       ELSE IF provider.secondaryOk
       THEN /\ tried' = <<"primary", "secondary">>
            /\ world' = NormalizeColumns(ReadFile("secondary", Ne110mColumns, provider.records))
            /\ pc' = "coastline"
            /\ output' = output
       ELSE /\ tried' = <<"primary", "secondary">>
            /\ world' = world
            /\ pc' = "aborted"
            /\ output' = Append(output, "exception")
    /\ UNCHANGED <<provider, years, region, default_slr, METER_PER_MSLR, coastlines,
                   selected_region_geom, inundations, summary_df, region_area_km2,
                   inundation_layers, heat_rows>>
    /\ UNCHANGED <<resVars, simVars>>

\* lines 98-103: coastlines = build_coastline_union(world)
BuildCoastline ==
    /\ pc = "coastline"
    /\ coastlines' = build_coastline_union(world)
    /\ pc' = "simulate"
    /\ UNCHANGED <<provider, tried, world, years, region, default_slr, METER_PER_MSLR,
                   selected_region_geom, inundations, summary_df, region_area_km2,
                   inundation_layers, heat_rows, output>>
    /\ UNCHANGED <<resVars, simVars>>

\* lines 134-137: the slider, the region shape and the simulation
Simulate ==
    /\ pc = "simulate"
    /\ \E m \in RunSliderChoices :
          LET geom == get_region_geom(world, region)
          IN /\ METER_PER_MSLR' = m
             /\ selected_region_geom' = geom
             /\ inundations' = simulate_inundation_for_years(
                                   years, default_slr, coastlines, geom, m)
    /\ pc' = "summary"
    /\ UNCHANGED <<provider, tried, world, years, region, default_slr, coastlines,
                   summary_df, region_area_km2, inundation_layers, heat_rows, output>>
    /\ UNCHANGED <<resVars, simVars>>

\* lines 168-189: the summary table; sort_values('year') on a frame built
\* from no rows has no 'year' column and raises KeyError
Summarize ==
    /\ pc = "summary"
    /\ IF SummaryRows(inundations) = <<>>
       THEN /\ pc' = "aborted"
            /\ output' = Append(output, "exception")
            /\ UNCHANGED <<summary_df, region_area_km2>>
       ELSE /\ region_area_km2' = RegionAreaKm2(selected_region_geom)
            /\ summary_df' = WithPct(sort_values(SummaryRows(inundations)),
                                     RegionAreaKm2(selected_region_geom))
            /\ pc' = "render"
            /\ output' = output
    /\ UNCHANGED <<provider, tried, world, years, region, default_slr, METER_PER_MSLR,
                   coastlines, selected_region_geom, inundations, inundation_layers,
                   heat_rows>>
    /\ UNCHANGED <<resVars, simVars>>

\* lines 191-243: the map layers, the map and the line chart
Render ==
    /\ pc = "render"
    /\ inundation_layers' = InundationLayers(SortedItems(inundations), 1)
    /\ output' = output \o <<"pydeck_chart", "line_chart">>
    /\ pc' = "heatmap"
    /\ UNCHANGED <<provider, tried, world, years, region, default_slr, METER_PER_MSLR,
                   coastlines, selected_region_geom, inundations, summary_df,
                   region_area_km2, heat_rows>>
    /\ UNCHANGED <<resVars, simVars>>

\* lines 245-276: the comparison of the regions
CompareRegions ==
    /\ pc = "heatmap"
    /\ LET rows == HeatRows(world, 1, years, default_slr, coastlines, METER_PER_MSLR)
       IN /\ heat_rows' = rows
          /\ output' = Append(output, IF rows # <<>> THEN "altair_chart" ELSE "heatmap_no_data")
    /\ pc' = "done"
    /\ UNCHANGED <<provider, tried, world, years, region, default_slr, METER_PER_MSLR,
                   coastlines, selected_region_geom, inundations, summary_df,
                   region_area_km2, inundation_layers>>
    /\ UNCHANGED <<resVars, simVars>>

\* --------------------------------------- get_region_geom applied on its own
s_Nonexistent == <<"N","o","n","e","x","i","s","t","e","n","t",
                   "C","o","n","t","i","n","e","n","t">>

\* identifiers handed to get_region_geom: the options of the selectbox, two
\* of them in lower case, and one that names nothing
RegionKeys == Range(RegionOptions) \cup
              { <<"a","s","i","a">>, <<"w","o","r","l","d">>, s_Nonexistent }

ResIdle == r_pc = "idle" /\ r_gdf = NoFrame /\ r_key = <<>> /\ r_geom = {}

InitResolve ==
    /\ r_pc = "file"
    /\ r_gdf \in {ReadFile("file", cols, ids) : cols \in Schemas, ids \in PoolSelections}
    /\ r_key = <<>>
    /\ r_geom = {}

\* lines 59-73: the column names are normalized
ResNormalize ==
    /\ r_pc = "file"
    /\ r_gdf' = NormalizeColumns(r_gdf)
    /\ r_pc' = "frame"
    /\ UNCHANGED <<r_key, r_geom, pipeVars, simVars>>

\* lines 78-94
ResResolve ==
    /\ r_pc = "frame"
    /\ \E key \in RegionKeys :
          /\ r_key' = key
          /\ r_geom' = get_region_geom(r_gdf, key)
    /\ r_pc' = "resolved"
    /\ UNCHANGED <<r_gdf, pipeVars, simVars>>

\* ------------------------- simulate_inundation_for_years applied on its own
SimYears == {2030, 2100}
SimSlrMaps == UNION {[D -> {-3, 0, 10}] : D \in SUBSET {2030, 2040}}
SimYearLists == UNION {[1..n -> SimYears] : n \in 0..MaxYears}

SimIdle == s_pc = "idle" /\ s_args = <<>> /\ s_results = <<>>

InitSimulate ==
    /\ s_pc = "call"
    /\ \E ids \in PoolPrefixes :
          LET gdf == ReadFile("file", LowresColumns, ids)
          IN s_args \in [years_list : SimYearLists,
                         slr_map : SimSlrMaps,
                         coastlines_geom : {build_coastline_union(gdf)},
                         region_mask : {{}} \cup {get_region_geom(gdf, key) : key \in RegionKeys},
                         meter_per_m : SliderChoices]
    /\ s_results = <<>>

\* lines 120-131
SimCall ==
    /\ s_pc = "call"
    /\ s_results' = simulate_inundation_for_years(
                        s_args.years_list, s_args.slr_map, s_args.coastlines_geom,
                        s_args.region_mask, s_args.meter_per_m)
    /\ s_pc' = "returned"
    /\ UNCHANGED <<s_args, pipeVars, resVars>>

\* ---------------------------------------------------------- specifications
RunIdle ==
    /\ pc = "idle" /\ provider = <<>> /\ tried = <<>> /\ world = NoFrame
    /\ years = <<>> /\ region = <<>> /\ default_slr = <<>> /\ METER_PER_MSLR = 0
    /\ coastlines = {} /\ selected_region_geom = {} /\ inundations = <<>>
    /\ summary_df = <<>> /\ region_area_km2 = 0 /\ inundation_layers = <<>>
    /\ heat_rows = <<>> /\ output = <<>>

Init == InitRun /\ ResIdle /\ SimIdle

Next ==
    \/ ReadSidebar
    \/ LoadWorld
    \/ BuildCoastline
    \/ Simulate
    \/ Summarize
    \/ Render
    \/ CompareRegions

Spec == Init /\ [][Next]_vars

ResolveInit == RunIdle /\ InitResolve /\ SimIdle
ResolveNext == ResNormalize \/ ResResolve
ResolveSpec == ResolveInit /\ [][ResolveNext]_vars

SimulateInit == RunIdle /\ ResIdle /\ InitSimulate
SimulateNext == SimCall
SimulateSpec == SimulateInit /\ [][SimulateNext]_vars

\* ================================================================== claims
\* the rows of a frame whose name holds every one of the given words,
\* letters compared without case
NamedWith(gdf, words) ==
    IF ~HasColumn(gdf, s_name) THEN {}
    ELSE {i \in RowIds(gdf) :
            /\ Cell(gdf, i, s_name) # Null
            /\ \A w \in words : Contains(Lower(Cell(gdf, i, s_name)), w)}

\* the rows of a frame whose continent is the identifier, without case
OfContinent(gdf, key) ==
    IF ~HasColumn(gdf, s_continent) THEN {}
    ELSE {i \in RowIds(gdf) :
            /\ Cell(gdf, i, s_continent) # Null
            /\ Lower(Cell(gdf, i, s_continent)) = Lower(key)}

ShapesOf(gdf, ids) == UNION {gdf.rows[i][Len(gdf.columns)] : i \in ids}
WorldUnion(gdf) == ShapesOf(gdf, RowIds(gdf))

\* does the identifier match a record of the frame?
RegionMatches(gdf, key) ==
    \/ key = s_World
    \/ key = s_SouthKorea /\ NamedWith(gdf, {s_korea}) # {}
    \/ OfContinent(gdf, key) # {}

\* C1: get_region_geom always returns a shape, and an identifier that matches
\* no record resolves to the union of the whole world, whatever columns the
\* boundary set has.
C1_MissResolvesToWorld ==
    r_pc = "resolved" =>
        /\ r_geom \subseteq Cells
        /\ ~RegionMatches(r_gdf, r_key) =>
              /\ r_geom = WorldUnion(r_gdf)
              /\ r_geom = get_region_geom(r_gdf, s_World)

C1_Witness ==
    /\ r_pc = "resolved"
    /\ r_key = s_Nonexistent
    /\ ~HasColumn(r_gdf, s_name)
    /\ HasColumn(r_gdf, s_continent)
    /\ r_geom = WorldUnion(r_gdf)
    /\ Cardinality(r_geom) >= 2

C3_InundationWithinRegion ==
    s_pc = "returned" =>
        \A i \in 1..Len(s_results) : s_results[i][2] \subseteq s_args.region_mask

C3_Witness ==
    /\ s_pc = "returned"
    /\ \E i \in 1..Len(s_results) :
          /\ s_results[i][2] # {}
          /\ s_results[i][2] # s_args.region_mask
          /\ \E p \in s_args.coastlines_geom : p \notin Boundary(s_args.region_mask)

\* C4: the result has exactly one entry per requested year, and a requested
\* year the rise schedule lacks is simulated with a rise of zero: nothing is
\* inundated.
C4_MissingYearIsZeroRise ==
    s_pc = "returned" =>
        /\ DictKeys(s_results) = Range(s_args.years_list)
        /\ Len(s_results) = Cardinality(Range(s_args.years_list))
        /\ \A i \in 1..Len(s_results) :
              s_results[i][1] \notin DOMAIN s_args.slr_map =>
                  /\ s_results[i][2] = {}
                  /\ InundationKm2(s_results[i][2]) = 0

C4_Witness ==
    /\ s_pc = "returned"
    /\ Len(s_results) = 2
    /\ \E i, j \in 1..2 :
          /\ s_results[i][1] \notin DOMAIN s_args.slr_map
          /\ s_results[i][2] = {}
          /\ s_results[j][2] # {}

RowOf(rows, y) == rows[CHOOSE i \in 1..Len(rows) : rows[i].year = y]

Summarized == pc \in {"render", "heatmap", "done"}

\* C5: in a finished run the inundated area does not decrease from a year of a
\* lower rise to a year of a higher rise, no area is negative, and with a
\* larger coefficient no year of a positive rise has a smaller area.
C5_AreaMonotone ==
    pc = "done" =>
        /\ \A i \in 1..Len(summary_df) : summary_df[i].inundation_km2 >= 0
        /\ \A i, j \in 1..Len(summary_df) :
              default_slr[summary_df[i].year] <= default_slr[summary_df[j].year]
                  => summary_df[i].inundation_km2 <= summary_df[j].inundation_km2
        /\ \A c \in SliderChoices :
              LET other == SummaryRows(simulate_inundation_for_years(
                               years, default_slr, coastlines, selected_region_geom, c))
              IN \A i \in 1..Len(summary_df) :
                    default_slr[summary_df[i].year] > 0 =>
                        /\ c > METER_PER_MSLR =>
                              summary_df[i].inundation_km2
                                  <= RowOf(other, summary_df[i].year).inundation_km2
                        /\ c < METER_PER_MSLR =>
                              RowOf(other, summary_df[i].year).inundation_km2
                                  <= summary_df[i].inundation_km2

C5_Witness ==
    /\ pc = "done"
    /\ METER_PER_MSLR = 400
    /\ \E i, j \in 1..Len(summary_df) :
          /\ 0 < default_slr[summary_df[i].year]
          /\ default_slr[summary_df[i].year] < default_slr[summary_df[j].year]
          /\ 0 < summary_df[i].inundation_km2
          /\ summary_df[i].inundation_km2 < summary_df[j].inundation_km2
          /\ summary_df[j].inundation_km2
                < RowOf(SummaryRows(simulate_inundation_for_years(
                            years, default_slr, coastlines, selected_region_geom, 2000)),
                        summary_df[j].year).inundation_km2

\* C6: when the region's area is positive, every row's percentage lies
\* between 0 and 100.
C6_PctWithinRange ==
    (Summarized /\ region_area_km2 > 0) =>
        \A i \in 1..Len(summary_df) :
            /\ summary_df[i].pct_of_region # NoPct
            /\ summary_df[i].pct_of_region[2] > 0
            /\ 0 <= summary_df[i].pct_of_region[1]
            /\ summary_df[i].pct_of_region[1] <= 100 * summary_df[i].pct_of_region[2]

C6_Witness ==
    /\ pc = "done"
    /\ region_area_km2 > 0
    /\ \E i, j \in 1..Len(summary_df) :
          /\ summary_df[i].pct_of_region[1] = 100 * summary_df[i].pct_of_region[2]
          /\ 0 < summary_df[j].pct_of_region[1]
          /\ summary_df[j].pct_of_region[1] < 100 * summary_df[j].pct_of_region[2]

NothingAfterLoad ==
    /\ coastlines = {} /\ selected_region_geom = {} /\ inundations = <<>>
    /\ summary_df = <<>> /\ inundation_layers = <<>> /\ heat_rows = <<>>
    /\ METER_PER_MSLR = 0
    /\ \A k \in 1..Len(output) : output[k] \in {"sidebar_error", "exception"}

\* C8: load_world consults the primary source first and the secondary one
\* only after the primary failed; the frame of the source that succeeded is
\* the one used; when both fail the run ends there and no later stage runs.
C8_LoadFallback ==
    tried # <<>> =>
        /\ tried[1] = "primary"
        /\ tried \in {<<"primary">>, <<"primary", "secondary">>}
        /\ (Len(tried) = 2) = (~provider.primaryOk)
        /\ provider.primaryOk => world.source = "primary"
        /\ (~provider.primaryOk /\ provider.secondaryOk) => world.source = "secondary"
        /\ (~provider.primaryOk /\ ~provider.secondaryOk) =>
              /\ pc = "aborted"
              /\ world = NoFrame
              /\ NothingAfterLoad

C8_Witness ==
    /\ pc = "aborted"
    /\ tried = <<"primary", "secondary">>
    /\ years # <<>>
    /\ output = <<"exception">>
    /\ NothingAfterLoad

\* C9: the summary table has one row for each selected year and no other,
\* in ascending order of year, whatever the order of the selection.
C9_OneRowPerYearAscending ==
    Summarized =>
        /\ Len(summary_df) = Len(years)
        /\ {summary_df[i].year : i \in 1..Len(summary_df)} = Range(years)
        /\ \A i \in 1..(Len(summary_df) - 1) : summary_df[i].year < summary_df[i + 1].year

C9_Witness ==
    /\ pc = "done"
    /\ Len(years) = 2
    /\ years[1] > years[2]
    /\ summary_df[1].year = years[2]
    /\ summary_df[2].year = years[1]

\* C10: a run with no year selected is not ended by an exception: it shows
\* the sidebar error, simulates nothing, builds a summary table of no rows,
\* renders no inundation layer and reports that the heat map has no data.
C10_EmptySelectionCompletes ==
    (years = <<>> /\ world # NoFrame) =>
        /\ pc # "aborted"
        /\ pc = "done" =>
              /\ summary_df = <<>> /\ inundation_layers = <<>>
              /\ output = <<"sidebar_error", "pydeck_chart", "line_chart", "heatmap_no_data">>

====
